---- MODULE Spec2Model ----
(***************************************************************************)
(* A model of scuzzie's resource graph (resources.py: Comic, Volume, Page) *)
(* and of its configuration codec (comic.py: read_comic, write_comic).     *)
(*                                                                         *)
(* Objects live in a heap: `vols` and `pgs` are sequences of Volume and    *)
(* Page records, an object's identity is its index.  `comic` is the Comic  *)
(* the program currently holds (at most one), `disk` the directory trees   *)
(* of the comic roots, `result` the outcome of the last operation and      *)
(* `hist` the successful additions, in the order they were made.           *)
(***************************************************************************)
EXTENDS Integers, Sequences, FiniteSets, TLC

VARIABLES comic, vols, pgs, disk, result, hist

vars == <<comic, vols, pgs, disk, result, hist>>

(* ------------------------------ bounds -------------------------------- *)

\* Volume objects the program constructs in memory (Volume(...),
\* create_volume).
MaxVolumes == 2
\* Page objects the program constructs in memory (Page(...), create_page).
MaxPages == 2
\* Slugs an order list of a document on disk holds before the program runs.
MaxListed == 2
\* Page directories a volume directory holds before the program runs.
MaxDiskPages == 2
\* Volume directories that hold page directories before the program runs.
MaxPagedVolumes == 1

(* ----------------------------- optionals ------------------------------ *)

\* Python's None and a present value.
None == <<>>
Some(x) == <<x>>

Range(s) == {s[i] : i \in DOMAIN s}

\* dict[key] = value
Put(m, k, v) == [x \in (DOMAIN m) \cup {k} |-> IF x = k THEN v ELSE m[x]]

EmptyMap == [x \in {} |-> 0]

(* ------------------------------ slugify ------------------------------- *)

\* Titles and slugs are sequences of one-character strings.
Lower == {"a", "b"}
Upper == {"A", "B"}

ToLower(ch) == IF ch = "A" THEN "a" ELSE IF ch = "B" THEN "b" ELSE ch

\* Every character that is not a letter becomes the separator.
SlugChar(ch) == IF ch \in Lower \cup Upper THEN ToLower(ch) ELSE "-"

RECURSIVE Collapse(_)
\* Runs of separators become one separator.
Collapse(s) ==
    IF Len(s) < 2 THEN s
    ELSE IF s[1] = "-" /\ s[2] = "-" THEN Collapse(Tail(s))
    ELSE <<s[1]>> \o Collapse(Tail(s))

StripLeft(s) == IF s # <<>> /\ s[1] = "-" THEN Tail(s) ELSE s

StripRight(s) ==
    IF s # <<>> /\ s[Len(s)] = "-" THEN SubSeq(s, 1, Len(s) - 1) ELSE s

\* slugify(title): lowercase, separators for everything else, collapsed and
\* stripped at both ends.
slugify(title) ==
    StripRight(StripLeft(Collapse([i \in DOMAIN title |-> SlugChar(title[i])])))

(* ------------------------------ inputs -------------------------------- *)

\* The titles the operations are called with: "A", "a!", "B". The first two
\* are different titles with the same slug.
Titles == {<<"A">>, <<"a", "!">>, <<"B">>}

\* Image paths, rooted at the assets directory: "/p", "/q", "/g".
ImgP == <<"/", "p">>
ImgQ == <<"/", "q">>
ImgGone == <<"/", "g">>
Images == {ImgP, ImgQ, ImgGone}

\* The order lists a caller constructs a Comic or a Volume with: none, two
\* slugs in an order that is not the order of the titles, one slug twice.
ListBA == <<<<"b">>, <<"a">>>>
InitialLists == {<<>>, ListBA, <<<<"a">>, <<"a">>>>}

\* The comic roots.
Roots == {"p", "q"}

ComicName == "comic"

(* ------------------------------ errors -------------------------------- *)

\* An outcome is None (success) or Some(error). An error carries the class
\* that is raised, its message, and the title and the slugs the message names.
Err(cls, msg, title, slugs) ==
    Some([cls |-> cls, msg |-> msg, title |-> title, slugs |-> slugs])

DuplicatePage == Err("ScuzzieError", "page already exists", <<>>, <<>>)
DuplicateVolume == Err("ScuzzieError", "volume already exists", <<>>, <<>>)
NotLinked == Err("ScuzzieError", "page is not in a volume", <<>>, <<>>)
NoVolumeUrl == Err("ScuzzieError", "volume URL without a path", <<>>, <<>>)
KeyError(slug) == Err("KeyError", "key", <<>>, <<slug>>)

(* --------------------------- resources.py ----------------------------- *)

\* Page.__init__
Page(path, title, image) ==
    [path |-> path, title |-> title, slug |-> slugify(title), image |-> image,
     volume |-> None]

\* Volume.__init__
Volume(path, title, image, page_slugs) ==
    [path |-> path, title |-> title, slug |-> slugify(title), image |-> image,
     page_slugs |-> page_slugs, pages |-> EmptyMap]

\* Comic.__init__
Comic(path, name, placeholder, volume_slugs) ==
    [path |-> path, name |-> name, placeholder |-> placeholder,
     volume_slugs |-> volume_slugs, volumes |-> EmptyMap]

\* Page.url of the page pid in the heap h: the URL, or the error raised.
page_url(h, pid) ==
    LET p == h.pgs[pid] IN
    IF p.volume = None THEN [err |-> NotLinked, url |-> <<>>]
    ELSE [err |-> None,
          url |-> <<"/volumes/", h.vols[p.volume[1]].slug, "/pages/", p.slug,
                    ".html">>]

\* Volume.url
volume_url(h, vid) ==
    LET v == h.vols[vid] IN
    IF v.path = None THEN [err |-> NoVolumeUrl, url |-> <<>>]
    ELSE [err |-> None, url |-> <<"/volumes/", v.slug, ".html">>]

\* Volume.each_page, realised as a list: the pages of page_slugs in list
\* order; a slug that is no key of pages raises KeyError at its turn.
each_page(h, vid) ==
    LET v == h.vols[vid]
        bad == {i \in DOMAIN v.page_slugs : v.page_slugs[i] \notin DOMAIN v.pages}
        n == IF bad = {} THEN Len(v.page_slugs)
             ELSE (CHOOSE i \in bad : \A j \in bad : i <= j) - 1
    IN [err |-> IF bad = {} THEN None ELSE KeyError(v.page_slugs[n + 1]),
        items |-> [i \in 1..n |-> v.pages[v.page_slugs[i]]]]

\* Comic.each_volume, realised as a list.
each_volume(c) ==
    LET bad == {i \in DOMAIN c.volume_slugs : c.volume_slugs[i] \notin DOMAIN c.volumes}
        n == IF bad = {} THEN Len(c.volume_slugs)
             ELSE (CHOOSE i \in bad : \A j \in bad : i <= j) - 1
    IN [err |-> IF bad = {} THEN None ELSE KeyError(c.volume_slugs[n + 1]),
        items |-> [i \in 1..n |-> c.volumes[c.volume_slugs[i]]]]

\* add_page as it would be with the back-reference set before the check.
add_page_links_first(h, vid, pid) ==
    LET v == h.vols[vid]
        p == h.pgs[pid]
        linked == [h EXCEPT !.pgs = [h.pgs EXCEPT ![pid] = [p EXCEPT !.volume = Some(vid)]]]
    IN IF p.slug \in DOMAIN v.pages
       THEN [err |-> DuplicatePage, heap |-> linked]
       ELSE [err |-> None,
             heap |->
               [vols |-> [h.vols EXCEPT ![vid] =
                   [v EXCEPT !.page_slugs =
                                 IF p.slug \in Range(v.page_slugs)
                                 THEN v.page_slugs
                                 ELSE Append(v.page_slugs, p.slug),
                             !.pages = Put(v.pages, p.slug, pid)]],
                pgs |-> linked.pgs]]

\* add_page as it would be without the back-reference.
add_page_unlinked(h, vid, pid) ==
    LET v == h.vols[vid]
        p == h.pgs[pid]
    IN IF p.slug \in DOMAIN v.pages
       THEN [err |-> DuplicatePage, heap |-> h]
       ELSE [err |-> None,
             heap |->
               [vols |-> [h.vols EXCEPT ![vid] =
                   [v EXCEPT !.page_slugs =
                                 IF p.slug \in Range(v.page_slugs)
                                 THEN v.page_slugs
                                 ELSE Append(v.page_slugs, p.slug),
                             !.pages = Put(v.pages, p.slug, pid)]],
                pgs |-> h.pgs]]

\* add_page as it would be if it appended the slug without looking.
add_page_always_appends(h, vid, pid) ==
    LET v == h.vols[vid]
        p == h.pgs[pid]
    IN IF p.slug \in DOMAIN v.pages
       THEN [err |-> DuplicatePage, heap |-> h]
       ELSE [err |-> None,
             heap |->
               [vols |-> [h.vols EXCEPT ![vid] =
                   [v EXCEPT !.page_slugs = Append(v.page_slugs, p.slug),
                             !.pages = Put(v.pages, p.slug, pid)]],
                pgs |-> [h.pgs EXCEPT ![pid] = [p EXCEPT !.volume = Some(vid)]]]]

\* Volume.add_page(page) on the heap h: the outcome and the heap after it.
add_page(h, vid, pid) ==
    LET v == h.vols[vid]
        p == h.pgs[pid]
    IN IF p.slug \in DOMAIN v.pages
       THEN [err |-> DuplicatePage, heap |-> h]
       ELSE [err |-> None,
             heap |->
               [vols |-> [h.vols EXCEPT ![vid] =
                   [v EXCEPT !.page_slugs =
                                 IF p.slug \in Range(v.page_slugs)
                                 THEN v.page_slugs
                                 ELSE Append(v.page_slugs, p.slug),
                             !.pages = Put(v.pages, p.slug, pid)]],
                pgs |-> [h.pgs EXCEPT ![pid] = [p EXCEPT !.volume = Some(vid)]]]]

\* add_volume as it would be with the slug put first in the list.
add_volume_prepend(c, h, vid) ==
    LET v == h.vols[vid] IN
    IF v.slug \in DOMAIN c.volumes
    THEN [err |-> DuplicateVolume, comic |-> c]
    ELSE [err |-> None,
          comic |-> [c EXCEPT !.volume_slugs =
                                  IF v.slug \in Range(c.volume_slugs)
                                  THEN c.volume_slugs
                                  ELSE <<v.slug>> \o c.volume_slugs,
                              !.volumes = Put(c.volumes, v.slug, vid)]]

\* add_volume as it would be without the duplicate check.
add_volume_overwrites(c, h, vid) ==
    LET v == h.vols[vid] IN
    [err |-> None,
     comic |-> [c EXCEPT !.volume_slugs =
                             IF v.slug \in Range(c.volume_slugs)
                             THEN c.volume_slugs
                             ELSE Append(c.volume_slugs, v.slug),
                         !.volumes = Put(c.volumes, v.slug, vid)]]

\* add_volume as it would be if it appended the slug without looking.
add_volume_always_appends(c, h, vid) ==
    LET v == h.vols[vid] IN
    IF v.slug \in DOMAIN c.volumes
    THEN [err |-> DuplicateVolume, comic |-> c]
    ELSE [err |-> None,
          comic |-> [c EXCEPT !.volume_slugs = Append(c.volume_slugs, v.slug),
                              !.volumes = Put(c.volumes, v.slug, vid)]]

\* Comic.add_volume(volume): the outcome and the comic after it.
add_volume(c, h, vid) ==
    LET v == h.vols[vid] IN
    IF v.slug \in DOMAIN c.volumes
    THEN [err |-> DuplicateVolume, comic |-> c]
    ELSE [err |-> None,
          comic |-> [c EXCEPT !.volume_slugs =
                                  IF v.slug \in Range(c.volume_slugs)
                                  THEN c.volume_slugs
                                  ELSE Append(c.volume_slugs, v.slug),
                              !.volumes = Put(c.volumes, v.slug, vid)]]

\* Comic.create_volume(title, image): the new Volume is the next object of
\* the heap; on failure the exception leaves it unreferenced.
create_volume(c, h, title, image) ==
    LET vid == Len(h.vols) + 1
        h1 == [h EXCEPT !.vols = Append(h.vols, Volume(None, title, image, <<>>))]
        r == add_volume(c, h1, vid)
    IN IF r.err = None
       THEN [err |-> None, comic |-> r.comic, heap |-> h1, vid |-> vid]
       ELSE [err |-> r.err, comic |-> c, heap |-> h, vid |-> 0]

\* create_page as it would be if it took the placeholder in every case.
create_page_placeholder_always(c, h, title, image, vid) ==
    LET pid == Len(h.pgs) + 1
        h1 == [h EXCEPT !.pgs = Append(h.pgs, Page(None, title, c.placeholder))]
        r == add_page(h1, vid, pid)
    IN IF r.err = None
       THEN [err |-> None, heap |-> r.heap, pid |-> pid]
       ELSE [err |-> r.err, heap |-> h, pid |-> 0]

\* Comic.create_page(title, image, volume); image None takes the placeholder.
create_page(c, h, title, image, vid) ==
    LET pid == Len(h.pgs) + 1
        img == IF image # None THEN image[1] ELSE c.placeholder
        h1 == [h EXCEPT !.pgs = Append(h.pgs, Page(None, title, img))]
        r == add_page(h1, vid, pid)
    IN IF r.err = None
       THEN [err |-> None, heap |-> r.heap, pid |-> pid]
       ELSE [err |-> r.err, heap |-> h, pid |-> 0]


(* ----------------------------- the disk ------------------------------- *)

\* A comic root holds comic.toml (None when the file is missing) and the
\* directories under volumes/, by name; a volume directory holds volume.toml
\* and the directories under pages/, by name, each holding page.toml.
EmptyTree == [comic |-> None, vols |-> EmptyMap]

\* The directory <root>/volumes/<dir> and the directory
\* <root>/volumes/<vdir>/pages/<dir>.
VolumePath(root, dir) == [root |-> root, vdir |-> dir, pdir |-> <<>>]
PagePath(vpath, dir) == [root |-> vpath.root, vdir |-> vpath.vdir, pdir |-> dir]

\* The regular files and the directories under every root's assets/.
AssetFiles == {<<"p">>, <<"q">>}
AssetDirs == {<<"d">>, <<>>, <<".">>}

\* str(path).strip("/")
StripSlashes(s) ==
    LET keep == {i \in DOMAIN s : s[i] # "/"}
    IN IF keep = {} THEN <<>>
       ELSE LET lo == CHOOSE i \in keep : \A j \in keep : i <= j
                hi == CHOOSE i \in keep : \A j \in keep : j <= i
            IN SubSeq(s, lo, hi)

\* models.validate_asset_exists: None, or the ValueError it raises.
validate_asset_exists(path) ==
    LET rel == StripSlashes(path) IN
    IF rel \notin AssetFiles \cup AssetDirs THEN Some("Path does not exist")
    ELSE IF rel \notin AssetFiles THEN Some("Path is not a file")
    ELSE None

\* The root of Path(string): exactly two leading slashes are kept, one
\* slash or three and more are one slash.
PathRoot(s) ==
    IF s = <<>> \/ s[1] # "/" THEN <<>>
    ELSE IF Len(s) >= 2 /\ s[2] = "/" /\ (Len(s) = 2 \/ s[3] # "/")
    THEN <<"/", "/">>
    ELSE <<"/">>

\* A component Path(string) keeps: not empty and not ".".
KeptPart(part) == IF part = <<>> \/ part = <<".">> THEN <<>> ELSE <<part>>

RECURSIVE PathParts(_, _)
\* The components of Path(string): the string is cut at its slashes; part
\* is the component being read.
PathParts(s, part) ==
    IF s = <<>> THEN KeptPart(part)
    ELSE IF Head(s) = "/" THEN KeptPart(part) \o PathParts(Tail(s), <<>>)
    ELSE PathParts(Tail(s), Append(part, Head(s)))

RECURSIVE JoinParts(_)
\* The components joined by single slashes.
JoinParts(parts) ==
    IF parts = <<>> THEN <<>>
    ELSE IF Len(parts) = 1 THEN parts[1]
    ELSE parts[1] \o <<"/">> \o JoinParts(Tail(parts))

\* A path without root and components is ".".
DotIfEmpty(s) == IF s = <<>> THEN <<".">> ELSE s

\* str(Path(string)): repeated and trailing slashes and "." components go,
\* a leading double slash stays.
NormPath(s) == DotIfEmpty(PathRoot(s) \o JoinParts(PathParts(s, <<>>)))

\* _try_write_toml writes a Path as str(value).
PathStr(path) == path

\* _try_write_toml at <root>/comic.toml
put_comic_toml(d, root, cfg) == [d EXCEPT ![root].comic = Some(cfg)]

\* _try_write_toml at <root>/volumes/<dir>/volume.toml; missing parent
\* directories are made.
put_volume_toml(d, root, dir, cfg) ==
    LET vs == d[root].vols IN
    [d EXCEPT ![root].vols =
        Put(vs, dir, [toml |-> Some(cfg),
                      pages |-> IF dir \in DOMAIN vs THEN vs[dir].pages
                                ELSE EmptyMap])]

\* _try_write_toml at <volume path>/pages/<dir>/page.toml
put_page_toml(d, vpath, dir, cfg) ==
    LET vs == d[vpath.root].vols
        old == IF vpath.vdir \in DOMAIN vs THEN vs[vpath.vdir]
               ELSE [toml |-> None, pages |-> EmptyMap]
    IN [d EXCEPT ![vpath.root].vols =
           Put(vs, vpath.vdir, [old EXCEPT !.pages = Put(old.pages, dir, Some(cfg))])]

\* A document written by write_comic, as the log records it.
Doc(kind, root, vdir, pdir) ==
    [doc |-> kind, root |-> root, vdir |-> vdir, pdir |-> pdir]

(* ---------------------------- comic.py: load -------------------------- *)

ConfigMissing(cls) == Err(cls, "Failed to load file", <<>>, <<>>)
ConfigInvalid(cls, why) == Err(cls, why, <<>>, <<>>)

NoHeap == [vols |-> <<>>, pgs |-> <<>>]

\* _page_from_config: the Page, or the error the failed validation becomes.
page_from_config(cfg, path) ==
    LET bad == validate_asset_exists(NormPath(cfg.image)) IN
    IF bad # None
    THEN [err |-> ConfigInvalid("ScuzzieVolumeConfigError", bad[1]), page |-> <<>>]
    ELSE [err |-> None, page |-> Page(Some(path), cfg.title, NormPath(cfg.image))]

\* into.add_page(page) for the page _page_from_config returned as r.
add_loaded_page(h, vid, r) ==
    IF r.err # None THEN [err |-> r.err, heap |-> h]
    ELSE add_page([h EXCEPT !.pgs = Append(h.pgs, r.page)], vid, Len(h.pgs) + 1)

\* One turn of the loop of _read_pages: _read_page_config (toml is the
\* page.toml of the directory, None when it is missing), _page_from_config
\* and add_page.
read_page_dir(h, vid, path, toml) ==
    IF toml = None
    THEN [err |-> ConfigMissing("ScuzziePageConfigError"), heap |-> h]
    ELSE add_loaded_page(h, vid, page_from_config(toml[1], path))

RECURSIVE read_page_dirs(_, _, _, _, _)
\* The loop of _read_pages after a turn that ended as r.
read_page_dirs_next(r, vid, vpath, ptree, todo) ==
    IF r.err # None THEN r ELSE read_page_dirs(r.heap, vid, vpath, ptree, todo)

\* The loop of _read_pages over pages_path.iterdir(), listed in the order todo.
read_page_dirs(h, vid, vpath, ptree, todo) ==
    IF todo = <<>> THEN [err |-> None, heap |-> h]
    ELSE read_page_dirs_next(
             read_page_dir(h, vid, PagePath(vpath, Head(todo)), ptree[Head(todo)]),
             vid, vpath, ptree, Tail(todo))

\* missing_pages of _read_pages
missing_pages(v) ==
    SelectSeq(v.page_slugs, LAMBDA s : s \notin DOMAIN v.pages)

MissingPagesError(v) ==
    Err("ScuzzieVolumeConfigError", "lists pages that don't seem to exist",
        v.title, missing_pages(v))

\* The check that ends _read_pages, after the loop ended as r.
check_missing_pages(r, vid) ==
    IF r.err # None THEN r
    ELSE IF missing_pages(r.heap.vols[vid]) # <<>>
    THEN [err |-> MissingPagesError(r.heap.vols[vid]), heap |-> r.heap]
    ELSE r

\* _read_pages(into=volume)
read_pages(h, vid, vtree, todo) ==
    check_missing_pages(
        read_page_dirs(h, vid, h.vols[vid].path[1], vtree.pages, todo), vid)

\* _volume_from_config: the Volume, or the error.
volume_from_config(cfg, path) ==
    LET bad == validate_asset_exists(NormPath(cfg.image)) IN
    IF bad # None
    THEN [err |-> ConfigInvalid("ScuzzieVolumeConfigError", bad[1]), volume |-> <<>>]
    ELSE [err |-> None,
          volume |-> Volume(Some(path), cfg.title, NormPath(cfg.image), cfg.pages)]

\* into.add_volume(volume) after _read_pages ended as r.
add_loaded_volume(c, vid, r) ==
    IF r.err # None THEN [err |-> r.err, comic |-> c, heap |-> r.heap]
    ELSE [err |-> add_volume(c, r.heap, vid).err,
          comic |-> add_volume(c, r.heap, vid).comic, heap |-> r.heap]

\* _read_pages and add_volume for the volume _volume_from_config returned as r.
read_loaded_volume(c, h, r, vtree, todo) ==
    IF r.err # None THEN [err |-> r.err, comic |-> c, heap |-> h]
    ELSE add_loaded_volume(c, Len(h.vols) + 1,
             read_pages([h EXCEPT !.vols = Append(h.vols, r.volume)],
                        Len(h.vols) + 1, vtree, todo))

\* One turn of the loop of _read_volumes.
read_volume_dir(c, h, path, vtree, todo) ==
    IF vtree.toml = None
    THEN [err |-> ConfigMissing("ScuzzieVolumeConfigError"), comic |-> c, heap |-> h]
    ELSE read_loaded_volume(c, h, volume_from_config(vtree.toml[1], path), vtree, todo)

RECURSIVE read_volume_dirs(_, _, _, _, _)
\* The loop of _read_volumes after a turn that ended as r.
read_volume_dirs_next(r, tree, todo, porder) ==
    IF r.err # None THEN r
    ELSE read_volume_dirs(r.comic, r.heap, tree, todo, porder)

\* The loop of _read_volumes over volumes_path.iterdir(), listed in the order
\* todo; porder gives the order each volume's pages_path.iterdir() lists.
read_volume_dirs(c, h, tree, todo, porder) ==
    IF todo = <<>> THEN [err |-> None, comic |-> c, heap |-> h]
    ELSE read_volume_dirs_next(
             read_volume_dir(c, h, VolumePath(c.path[1], Head(todo)),
                             tree.vols[Head(todo)], porder[Head(todo)]),
             tree, Tail(todo), porder)

\* _comic_from_config
comic_from_config(cfg, root) ==
    LET bad == validate_asset_exists(NormPath(cfg.placeholder)) IN
    IF bad # None
    THEN [err |-> ConfigInvalid("ScuzzieComicConfigError", bad[1]), comic |-> <<>>]
    ELSE [err |-> None,
          comic |-> Comic(Some(root), cfg.name, NormPath(cfg.placeholder),
                          cfg.volumes)]

\* What read_comic returns or raises, after _read_volumes ended as r.
loaded(r) ==
    IF r.err # None THEN [err |-> r.err, comic |-> None, heap |-> NoHeap]
    ELSE [err |-> None, comic |-> Some(r.comic), heap |-> r.heap]

\* _read_volumes for the comic _comic_from_config returned as r.
read_volumes(r, tree, vorder, porder) ==
    IF r.err # None THEN [err |-> r.err, comic |-> <<>>, heap |-> NoHeap]
    ELSE read_volume_dirs(r.comic, NoHeap, tree, vorder, porder)

\* read_comic(path): the outcome, the Comic and its heap of volumes and
\* pages. vorder and porder are the orders the directories are listed in.
read_comic(d, root, vorder, porder) ==
    IF d[root].comic = None
    THEN [err |-> ConfigMissing("ScuzzieComicConfigError"), comic |-> None,
          heap |-> NoHeap]
    ELSE loaded(read_volumes(comic_from_config(d[root].comic[1], root),
                             d[root], vorder, porder))

(* ---------------------------- comic.py: save -------------------------- *)

InvalidState ==
    Err("ScuzzieError", "One (and only one) of comic.path and path", <<>>, <<>>)
NullVolume ==
    Err("ScuzzieVolumeConfigError", "null volume or volume with a null path",
        <<>>, <<>>)
ValidationError(why) == Err("ValidationError", why, <<>>, <<>>)

\* _ensure_comic_has_path as it would be if a given path always won.
ensure_comic_has_path_override(c, path) ==
    IF path # None
    THEN [err |-> None, comic |-> [c EXCEPT !.path = path], path |-> path]
    ELSE IF c.path # None
    THEN [err |-> None, comic |-> c, path |-> c.path]
    ELSE [err |-> InvalidState, comic |-> c, path |-> None]

\* _ensure_comic_has_path as it would be if it did not keep the path given.
ensure_comic_has_path_forgets(c, path) ==
    IF c.path # None /\ path = None
    THEN [err |-> None, comic |-> c, path |-> c.path]
    ELSE IF path # None /\ c.path = None
    THEN [err |-> None, comic |-> c, path |-> path]
    ELSE [err |-> InvalidState, comic |-> c, path |-> None]

\* _ensure_comic_has_path(comic, path)
ensure_comic_has_path(c, path) ==
    IF c.path # None /\ path = None
    THEN [err |-> None, comic |-> c, path |-> c.path]
    ELSE IF path # None /\ c.path = None
    THEN [err |-> None, comic |-> [c EXCEPT !.path = path], path |-> path]
    ELSE [err |-> InvalidState, comic |-> c, path |-> None]

\* A step of the save that wrote nothing and ended as err.
Wrote0(err, d) == [err |-> err, disk |-> d, log |-> <<>>]

\* The documents of `log` were written before the steps that ended as rest.
After(log, rest) == [rest EXCEPT !.log = log \o rest.log]

\* _write_comic_config
write_comic_config(c, d, root) ==
    LET bad == validate_asset_exists(c.placeholder) IN
    IF bad # None THEN Wrote0(ValidationError(bad[1]), d)
    ELSE [err |-> None,
          disk |-> put_comic_toml(d, root,
                      [name |-> c.name, placeholder |-> PathStr(c.placeholder),
                       volumes |-> c.volume_slugs]),
          log |-> <<Doc("comic", root, <<>>, <<>>)>>]

\* _write_volume_config
write_volume_config(v, d, root) ==
    LET bad == validate_asset_exists(v.image) IN
    IF bad # None THEN Wrote0(ValidationError(bad[1]), d)
    ELSE [err |-> None,
          disk |-> put_volume_toml(d, root, v.slug,
                      [title |-> v.title, image |-> PathStr(v.image),
                       pages |-> v.page_slugs]),
          log |-> <<Doc("volume", root, v.slug, <<>>)>>]

\* The page has a volume and that volume has a path.
page_has_volume_path(h, p) ==
    p.volume # None /\ h.vols[p.volume[1]].path # None

\* _write_page, where the page has a volume with the path vpath.
write_page_at(p, vpath, d) ==
    LET bad == validate_asset_exists(p.image) IN
    IF bad # None THEN Wrote0(ValidationError(bad[1]), d)
    ELSE [err |-> None,
          disk |-> put_page_toml(d, vpath, p.slug,
                      [title |-> p.title, image |-> PathStr(p.image)]),
          log |-> <<Doc("page", vpath.root, vpath.vdir, p.slug)>>]

\* _write_page as it would be if it skipped a page it cannot place.
write_page_skips(h, pid, d) ==
    IF page_has_volume_path(h, h.pgs[pid])
    THEN write_page_at(h.pgs[pid], h.vols[h.pgs[pid].volume[1]].path[1], d)
    ELSE Wrote0(None, d)

\* _write_page
write_page(h, pid, d) ==
    IF page_has_volume_path(h, h.pgs[pid])
    THEN write_page_at(h.pgs[pid], h.vols[h.pgs[pid].volume[1]].path[1], d)
    ELSE Wrote0(NullVolume, d)

RECURSIVE write_pages(_, _, _, _)
\* The loop of _write_volume after the turn for the i-th slug ended as r.
write_pages_next(r, h, vid, i) ==
    IF r.err # None THEN r ELSE After(r.log, write_pages(h, vid, r.disk, i + 1))

\* The loop of _write_volume over volume.each_page(), from the i-th slug on.
write_pages(h, vid, d, i) ==
    IF i > Len(h.vols[vid].page_slugs) THEN Wrote0(None, d)
    ELSE IF h.vols[vid].page_slugs[i] \notin DOMAIN h.vols[vid].pages
    THEN Wrote0(KeyError(h.vols[vid].page_slugs[i]), d)
    ELSE write_pages_next(
             write_page(h, h.vols[vid].pages[h.vols[vid].page_slugs[i]], d),
             h, vid, i)

\* The pages of _write_volume, after _write_volume_config ended as r.
write_volume_pages(r, h, vid) ==
    IF r.err # None THEN r ELSE After(r.log, write_pages(h, vid, r.disk, 1))

\* _write_volume
write_volume(h, vid, d, root) ==
    write_volume_pages(write_volume_config(h.vols[vid], d, root), h, vid)

RECURSIVE write_volumes(_, _, _, _, _)
\* The loop of _write_volumes after the turn for the i-th slug ended as r.
write_volumes_next(r, c, h, root, i) ==
    IF r.err # None THEN r
    ELSE After(r.log, write_volumes(c, h, r.disk, root, i + 1))

\* The loop of _write_volumes over comic.each_volume(), from the i-th slug on.
write_volumes(c, h, d, root, i) ==
    IF i > Len(c.volume_slugs) THEN Wrote0(None, d)
    ELSE IF c.volume_slugs[i] \notin DOMAIN c.volumes
    THEN Wrote0(KeyError(c.volume_slugs[i]), d)
    ELSE write_volumes_next(
             write_volume(h, c.volumes[c.volume_slugs[i]], d, root),
             c, h, root, i)

\* A save that ended as w gives back the disk d when it failed.
rollback_to(w, d) == IF w.err # None THEN [w EXCEPT !.disk = d] ELSE w

\* _write_volumes as it would be if a failure took back the volumes written.
write_comic_volumes_rollback(r, c, h, root) ==
    IF r.err # None THEN r
    ELSE rollback_to(After(r.log, write_volumes(c, h, r.disk, root, 1)), r.disk)

\* _write_volumes, after _write_comic_config ended as r.
write_comic_volumes(r, c, h, root) ==
    IF r.err # None THEN r ELSE After(r.log, write_volumes(c, h, r.disk, root, 1))

\* The rest of write_comic, after _ensure_comic_has_path ended as e.
write_comic_to(e, h, d) ==
    IF e.err # None THEN Wrote0(e.err, d)
    ELSE write_comic_volumes(write_comic_config(e.comic, d, e.path[1]),
                             e.comic, h, e.path[1])

\* write_comic(comic, path=path): the outcome, the disk, and the documents
\* written, in the order they were written.
write_comic(c, h, d, path) == write_comic_to(ensure_comic_has_path(c, path), h, d)

(* ------------------------------ state --------------------------------- *)

heap == [vols |-> vols, pgs |-> pgs]

NoHist == [vols |-> <<>>, pages |-> <<>>]

Outcome(op, err, log) == [op |-> op, err |-> err, log |-> log]

\* The program starts with no comic in memory and nothing on disk.
Init ==
    /\ comic = None
    /\ vols = <<>>
    /\ pgs = <<>>
    /\ disk = [r \in Roots |-> EmptyTree]
    /\ result = Outcome("start", None, <<>>)
    /\ hist = NoHist

(* ----------------------------- actions -------------------------------- *)

\* Comic(path=None, ..., volume_slugs=volume_slugs): the program constructs
\* a virtual comic.
NewComic(volume_slugs) ==
    /\ result.op = "start"
    /\ comic' = Some(Comic(None, ComicName, ImgP, volume_slugs))
    /\ vols' = <<>>
    /\ pgs' = <<>>
    /\ hist' = NoHist
    /\ result' = Outcome("new_comic", None, <<>>)
    /\ UNCHANGED disk

\* comic.create_volume(title, image)
CreateVolume(title, image) ==
    /\ comic # None
    /\ Len(vols) < MaxVolumes
    /\ LET r == create_volume(comic[1], heap, title, image) IN
       /\ comic' = Some(r.comic)
       /\ vols' = r.heap.vols
       /\ pgs' = r.heap.pgs
       /\ hist' = IF r.err = None THEN [hist EXCEPT !.vols = Append(@, r.vid)]
                  ELSE hist
       /\ result' = Outcome("create_volume", r.err, <<>>)
    /\ UNCHANGED disk

\* Volume(path=None, title=title, image=image, page_slugs=page_slugs): a
\* volume that is in no comic yet.
NewVolume(title, image, page_slugs) ==
    /\ comic # None
    /\ Len(vols) < MaxVolumes
    /\ vols' = Append(vols, Volume(None, title, image, page_slugs))
    /\ result' = Outcome("new_volume", None, <<>>)
    /\ UNCHANGED <<comic, pgs, disk, hist>>

\* comic.add_volume(volume), for the volume vid
AddVolume(vid) ==
    /\ comic # None
    /\ LET r == add_volume(comic[1], heap, vid) IN
       /\ comic' = Some(r.comic)
       /\ hist' = IF r.err = None THEN [hist EXCEPT !.vols = Append(@, vid)]
                  ELSE hist
       /\ result' = Outcome("add_volume", r.err, <<>>)
    /\ UNCHANGED <<vols, pgs, disk>>

\* comic.create_page(title=title, image=image, volume=the volume vid)
CreatePage(title, image, vid) ==
    /\ comic # None
    /\ Len(pgs) < MaxPages
    /\ LET r == create_page(comic[1], heap, title, image, vid) IN
       /\ vols' = r.heap.vols
       /\ pgs' = r.heap.pgs
       /\ hist' = IF r.err = None
                  THEN [hist EXCEPT !.pages = Append(@, <<vid, r.pid>>)]
                  ELSE hist
       /\ result' = Outcome("create_page", r.err, <<>>)
    /\ UNCHANGED <<comic, disk>>

\* Page(path=None, title=title, image=...): a page that is in no volume yet.
NewPage(title) ==
    /\ comic # None
    /\ Len(pgs) < MaxPages
    /\ pgs' = Append(pgs, Page(None, title, ImgQ))
    /\ result' = Outcome("new_page", None, <<>>)
    /\ UNCHANGED <<comic, vols, disk, hist>>

\* volume.add_page(page), for the volume vid and the page pid
AddPage(vid, pid) ==
    LET r == add_page(heap, vid, pid) IN
    /\ vols' = r.heap.vols
    /\ pgs' = r.heap.pgs
    /\ hist' = IF r.err = None
               THEN [hist EXCEPT !.pages = Append(@, <<vid, pid>>)]
               ELSE hist
    /\ result' = Outcome("add_page", r.err, <<>>)
    /\ UNCHANGED <<comic, disk>>

\* write_comic(comic, path=path)
WriteComic(path) ==
    /\ comic # None
    /\ comic' = Some(ensure_comic_has_path(comic[1], path).comic)
    /\ LET r == write_comic(comic[1], heap, disk, path) IN
       /\ disk' = r.disk
       /\ result' = Outcome("write_comic", r.err, r.log)
    /\ UNCHANGED <<vols, pgs, hist>>

\* The orders a directory with the entries S may be listed in.
Orders(S) == {s \in [1..Cardinality(S) -> S] : Range(s) = S}

\* The orders the page directories of every volume directory may be listed in.
PageOrders(tree) ==
    LET dirs == DOMAIN tree.vols
        all == UNION {Orders(DOMAIN tree.vols[x].pages) : x \in dirs}
    IN {f \in [dirs -> all] : \A x \in dirs : f[x] \in Orders(DOMAIN tree.vols[x].pages)}

\* A command starts and calls read_comic(root); the comic it loads replaces
\* whatever an earlier command held. When the load fails no comic is held.
ReadComic(root) ==
    \E vorder \in Orders(DOMAIN disk[root].vols), porder \in PageOrders(disk[root]) :
        LET r == read_comic(disk, root, vorder, porder) IN
        /\ comic' = r.comic
        /\ vols' = r.heap.vols
        /\ pgs' = r.heap.pgs
        /\ hist' = NoHist
        /\ result' = Outcome("read_comic", r.err, <<>>)
        /\ UNCHANGED disk

(* ------------------------ trees found on disk ------------------------- *)

\* The names of the directories found under volumes/ and pages/, and the
\* titles found in their documents.
DirNames == {<<"a">>, <<"b">>}
DiskTitles == {<<"A">>, <<"B">>}

\* The order lists found in a document.
SlugLists == UNION {[1..n -> DirNames] : n \in 0..MaxListed}

\* The maps from some of the names to a value of V.
DirMaps(V, most) ==
    UNION {[D -> V] : D \in {X \in SUBSET DirNames : Cardinality(X) <= most}}

PageTomls == {None} \cup {Some([title |-> t, image |-> ImgP]) : t \in DiskTitles}

VolumeTrees ==
    {[toml |-> None, pages |-> EmptyMap]}
    \cup {[toml |-> Some([title |-> t, image |-> ImgP, pages |-> l]), pages |-> ps] :
             t \in DiskTitles, l \in SlugLists, ps \in DirMaps(PageTomls, MaxDiskPages)}

\* The trees a comic root may hold when the program starts: comic.toml is
\* missing, or it is there and lists some volumes; any volume and page
\* directories, with or without their documents; every image is an asset.
DiskTrees ==
    {EmptyTree}
    \cup {[comic |-> Some([name |-> ComicName, placeholder |-> ImgP, volumes |-> l]),
           vols |-> vs] :
             l \in SlugLists,
             vs \in {m \in DirMaps(VolumeTrees, Cardinality(DirNames)) :
                       Cardinality({d \in DOMAIN m : m[d].pages # EmptyMap})
                          <= MaxPagedVolumes}}

\* The program starts on a tree it did not write.
InitLoad ==
    /\ comic = None
    /\ vols = <<>>
    /\ pgs = <<>>
    /\ \E t \in DiskTrees : disk = [r \in Roots |-> IF r = "p" THEN t ELSE EmptyTree]
    /\ result = Outcome("start", None, <<>>)
    /\ hist = NoHist

\* A tree is loaded.
NextLoad == ReadComic("p")

SpecLoad == InitLoad /\ [][NextLoad]_vars

\* The trees of DiskTrees that read_comic loads.
Loads(tree) ==
    \E vorder \in Orders(DOMAIN tree.vols), porder \in PageOrders(tree) :
        read_comic([r \in Roots |-> tree], "p", vorder, porder).err = None

\* The program starts on a tree it did not write and that it can load.
InitLoadable ==
    /\ comic = None
    /\ vols = <<>>
    /\ pgs = <<>>
    /\ \E t \in {x \in DiskTrees : Loads(x)} :
          disk = [r \in Roots |-> IF r = "p" THEN t ELSE EmptyTree]
    /\ result = Outcome("start", None, <<>>)
    /\ hist = NoHist

\* Every volume and page directory of the tree is named by the slug of the
\* title in its document.
NamedBySlug(tree) ==
    \A vd \in DOMAIN tree.vols :
        /\ tree.vols[vd].toml # None => slugify(tree.vols[vd].toml[1].title) = vd
        /\ \A pd \in DOMAIN tree.vols[vd].pages :
              tree.vols[vd].pages[pd] # None
                 => slugify(tree.vols[vd].pages[pd][1].title) = pd

NoRepeat(s) == \A i, j \in DOMAIN s : s[i] = s[j] => i = j

\* No order list of a document of the tree names a slug twice.
ListsOnce(tree) ==
    /\ tree.comic # None => NoRepeat(tree.comic[1].volumes)
    /\ \A vd \in DOMAIN tree.vols :
          tree.vols[vd].toml # None => NoRepeat(tree.vols[vd].toml[1].pages)

\* The loadable trees laid out as write_comic lays a tree out: directories
\* named by the slugs of their titles, order lists that name a slug once.
TidyTrees == {x \in DiskTrees : NamedBySlug(x) /\ ListsOnce(x) /\ Loads(x)}

\* The program starts on such a tree.
InitTidy ==
    /\ comic = None
    /\ vols = <<>>
    /\ pgs = <<>>
    /\ \E t \in TidyTrees :
          disk = [r \in Roots |-> IF r = "p" THEN t ELSE EmptyTree]
    /\ result = Outcome("start", None, <<>>)
    /\ hist = NoHist

\* The calls of resources.py on the objects there are: Volume(...) with
\* one of the order lists, add_volume, create_volume, create_page,
\* Page(...), add_page.
GraphCall(lists) ==
    \/ \E list \in lists : NewVolume(<<"B">>, ImgP, list)
    \/ \E vid \in DOMAIN vols : AddVolume(vid)
    \/ \E title \in Titles : CreateVolume(title, ImgP)
    \/ \E title \in Titles, image \in {None, Some(ImgQ)}, vid \in DOMAIN vols :
          CreatePage(title, image, vid)
    \/ \E title \in Titles : NewPage(title)
    \/ \E vid \in DOMAIN vols, pid \in DOMAIN pgs : AddPage(vid, pid)

\* A caller of the library loads the tree, constructs, adds and creates
\* volumes, creates pages and saves the comic, in any order and with any
\* path.
NextApi ==
    \/ result.op = "start" /\ ReadComic("p")
    \/ NewVolume(<<"B">>, ImgP, ListBA)
    \/ \E vid \in DOMAIN vols : AddVolume(vid)
    \/ \E title \in Titles, image \in {ImgP, ImgGone} : CreateVolume(title, image)
    \/ \E title \in Titles, image \in {None, Some(ImgQ)}, vid \in DOMAIN vols :
          CreatePage(title, image, vid)
    \/ \E path \in {None, Some("p")} : WriteComic(path)

SpecApi == InitTidy /\ [][NextApi]_vars

\* The resource graph alone, on a comic the caller constructs.
NextGraph ==
    \/ \E list \in InitialLists : NewComic(list)
    \/ GraphCall(InitialLists \ {<<>>})

SpecGraph == Init /\ [][NextGraph]_vars

\* The comic is virtual: it has no path yet.
Virtual == comic # None /\ comic[1].path = None

\* A comic is constructed or loaded, volumes are created, or constructed
\* and added, pages are created with the placeholder or with an image that
\* is missing, and the comic is saved and loaded under any root.
Next ==
    \/ NewComic(<<>>)
    \/ NewVolume(<<"B">>, ImgP, <<>>)
    \/ \E vid \in DOMAIN vols : AddVolume(vid)
    \/ \E title \in Titles : CreateVolume(title, ImgP)
    \/ \E title \in Titles, image \in {None, Some(ImgGone)}, vid \in DOMAIN vols :
          CreatePage(title, image, vid)
    \/ \E path \in {None} \cup {Some(r) : r \in Roots} : WriteComic(path)
    \/ \E root \in Roots : ReadComic(root)

Spec == Init /\ [][Next]_vars

(* ------------------------------ claims -------------------------------- *)

\* What write_comic may be called with as its path.
PathArgs == {None} \cup {Some(r) : r \in Roots}

\* The pages of a volume and the volumes of the comic, by object.
PagesOf(vid) == {vols[vid].pages[s] : s \in DOMAIN vols[vid].pages}
VolumesOf(c) == {c.volumes[s] : s \in DOMAIN c.volumes}

\* Every image of the comic c and of its volumes and pages in the heap h is
\* a regular file of the assets.
AssetsExist(c, h) ==
    /\ validate_asset_exists(c.placeholder) = None
    /\ \A s \in DOMAIN c.volumes :
          /\ validate_asset_exists(h.vols[c.volumes[s]].image) = None
          /\ \A t \in DOMAIN h.vols[c.volumes[s]].pages :
                validate_asset_exists(h.pgs[h.vols[c.volumes[s]].pages[t]].image) = None

\* Two graphs have the same order lists, and under every slug the same
\* title and image.
SameGraph(c1, h1, c2, h2) ==
    /\ c1.volume_slugs = c2.volume_slugs
    /\ DOMAIN c1.volumes = DOMAIN c2.volumes
    /\ \A s \in DOMAIN c1.volumes \cap DOMAIN c2.volumes :
          LET v1 == h1.vols[c1.volumes[s]]
              v2 == h2.vols[c2.volumes[s]]
          IN /\ v1.title = v2.title
             /\ v1.image = v2.image
             /\ v1.page_slugs = v2.page_slugs
             /\ DOMAIN v1.pages = DOMAIN v2.pages
             /\ \A t \in DOMAIN v1.pages \cap DOMAIN v2.pages :
                   /\ h1.pgs[v1.pages[t]].title = h2.pgs[v2.pages[t]].title
                   /\ h1.pgs[v1.pages[t]].image = h2.pgs[v2.pages[t]].image

\* read_comic(root) succeeds on the disk d and returns the graph of c and h,
\* in whatever order the directories are listed.
ReadsBack(c, h, d, root) ==
    \A vorder \in Orders(DOMAIN d[root].vols), porder \in PageOrders(d[root]) :
        LET r == read_comic(d, root, vorder, porder) IN
        /\ r.err = None
        /\ SameGraph(c, h, r.comic[1], r.heap)

\* C1: a virtual comic built with create_volume and create_page, all of its
\* images existing, is saved to an empty root by write_comic(comic, path=root)
\* without an error, and read_comic(root) then returns a comic with the same
\* order lists, titles and images.
C1_RoundTrip ==
    [][\A root \in Roots :
          (Virtual /\ AssetsExist(comic[1], heap) /\ disk[root] = EmptyTree
             /\ WriteComic(Some(root)))
          => (result'.err = None /\ ReadsBack(comic'[1], heap', disk', root))]_vars

\* C2: add_page with a page whose slug is already a key of the volume's
\* pages fails as a duplicate and changes neither the volume's page_slugs
\* and pages nor the page's volume.
C2_DuplicateAddPageAtomic ==
    [][\A vid \in DOMAIN vols, pid \in DOMAIN pgs :
          (pgs[pid].slug \in DOMAIN vols[vid].pages /\ AddPage(vid, pid))
          => /\ result'.err = DuplicatePage
             /\ vols'[vid].page_slugs = vols[vid].page_slugs
             /\ vols'[vid].pages = vols[vid].pages
             /\ pgs'[pid].volume = pgs[pid].volume]_vars

\* A page that is in no volume was rejected by a volume holding its slug.
C2_Witness ==
    /\ result.op = "add_page"
    /\ result.err = DuplicatePage
    /\ \E pid \in DOMAIN pgs, vid \in DOMAIN vols :
          /\ pgs[pid].volume = None
          /\ pgs[pid].slug \in DOMAIN vols[vid].pages

\* The volume documents of the tree at "p" that list a page slug for which
\* there is no directory pages/<slug>/.
ListsMissingPageDir(tree) ==
    {dir \in DOMAIN tree.vols :
        /\ tree.vols[dir].toml # None
        /\ \E i \in DOMAIN tree.vols[dir].toml[1].pages :
              tree.vols[dir].toml[1].pages[i] \notin DOMAIN tree.vols[dir].pages}

\* C3: when a volume.toml lists a page slug that has no directory
\* pages/<slug>/, read_comic does not return a comic, and when it fails on
\* that list the error is the volume config error naming the volume and the
\* missing slugs; no comic read_comic returns has a page slug in a volume's
\* page_slugs that is no key of its pages.
C3_MissingPageDirFails ==
    result.op = "read_comic" =>
        /\ ListsMissingPageDir(disk["p"]) # {} => result.err # None
        /\ (result.err # None /\ result.err[1].msg = "lists pages that don't seem to exist")
              => /\ result.err[1].cls = "ScuzzieVolumeConfigError"
                 /\ result.err[1].slugs # <<>>
        /\ result.err = None =>
              \A vid \in DOMAIN vols :
                  Range(vols[vid].page_slugs) \subseteq DOMAIN vols[vid].pages

\* C4: every slug of the volume_slugs of a comic read_comic returns is a
\* key of its volumes.
C4_LoadedVolumeOrderResolves ==
    (result.op = "read_comic" /\ result.err = None)
        => Range(comic[1].volume_slugs) \subseteq DOMAIN comic[1].volumes

\* The pages successfully added to the volume vid, in the order of addition.
AddedTo(hs, vid) ==
    LET s == SelectSeq(hs.pages, LAMBDA e : e[1] = vid)
    IN [i \in DOMAIN s |-> s[i][2]]

\* The outcome r of an iteration over the list by the map: without an
\* error, one object for each slug of the list, in list order.
YieldsAll(r, list, map) ==
    /\ r.err = None
    /\ Len(r.items) = Len(list)
    /\ \A i \in DOMAIN list : list[i] \in DOMAIN map /\ r.items[i] = map[list[i]]

\* The outcome r of an iteration over a list with a slug that is no key of
\* the map: the objects of the slugs before the first such slug, in list
\* order, and then the KeyError of that slug.
YieldsUntilMissing(r, list, map) ==
    \E n \in DOMAIN list :
        /\ list[n] \notin DOMAIN map
        /\ r.err = KeyError(list[n])
        /\ Len(r.items) = n - 1
        /\ \A i \in 1..(n - 1) : list[i] \in DOMAIN map /\ r.items[i] = map[list[i]]

Yields(r, list, map) ==
    IF Range(list) \subseteq DOMAIN map THEN YieldsAll(r, list, map)
    ELSE YieldsUntilMissing(r, list, map)

\* The sequence after a successful creation of the object id under the
\* slug: the object is the last of it when the list did not name the slug
\* and every slug of the list was a key; when the list named the slug, the
\* list is as it was and the object is yielded at the place of its slug.
YieldsCreated(before, after, list, list2, slug, id) ==
    IF slug \in Range(list)
    THEN /\ list2 = list
         /\ \A i \in DOMAIN after.items : after.items[i] = id <=> list[i] = slug
    ELSE /\ list2 = Append(list, slug)
         /\ before.err = None => after = [err |-> None, items |-> Append(before.items, id)]
         /\ before.err # None => after = before

\* C5: each_volume() and each_page() yield the volumes and pages the order
\* list names, one for each slug and in list order, when every slug of the
\* list is a key of the map, and otherwise those before the first slug that
\* is no key, followed by a KeyError. A successful create_volume or
\* create_page of a slug the list does not name makes the new object the
\* last of a sequence that was complete; a slug the list names already
\* keeps its place in the list.
C5_IterationFollowsList ==
    /\ [](comic # None =>
            /\ Yields(each_volume(comic[1]), comic[1].volume_slugs, comic[1].volumes)
            /\ \A vid \in DOMAIN vols :
                  Yields(each_page(heap, vid), vols[vid].page_slugs, vols[vid].pages))
    /\ [][/\ \A title \in Titles :
               (CreateVolume(title, ImgP) /\ result'.err = None) =>
                  YieldsCreated(each_volume(comic[1]), each_volume(comic'[1]),
                                comic[1].volume_slugs, comic'[1].volume_slugs,
                                slugify(title), Len(vols'))
          /\ \A title \in Titles, image \in {None, Some(ImgQ)}, vid \in DOMAIN vols :
               (CreatePage(title, image, vid) /\ result'.err = None) =>
                  YieldsCreated(each_page(heap, vid),
                                each_page([vols |-> vols', pgs |-> pgs'], vid),
                                vols[vid].page_slugs, vols'[vid].page_slugs,
                                slugify(title), Len(pgs'))]_vars

\* The same with every slug of every list yielded, and with what was
\* created as the last of the sequence in every case.
C5_IterationOrder ==
    /\ [](comic # None =>
            /\ YieldsAll(each_volume(comic[1]), comic[1].volume_slugs, comic[1].volumes)
            /\ \A vid \in DOMAIN vols :
                  YieldsAll(each_page(heap, vid), vols[vid].page_slugs, vols[vid].pages))
    /\ [][/\ \A title \in Titles :
               (CreateVolume(title, ImgP) /\ result'.err = None) =>
                  each_volume(comic'[1]).items
                     = Append(each_volume(comic[1]).items, Len(vols'))
          /\ \A title \in Titles, image \in {None, Some(ImgQ)}, vid \in DOMAIN vols :
               (CreatePage(title, image, vid) /\ result'.err = None) =>
                  each_page([vols |-> vols', pgs |-> pgs'], vid).items
                     = Append(each_page(heap, vid).items, Len(pgs'))]_vars

\* In a loaded comic that yields a volume, a volume constructed with the
\* list b, a was given the page a and then the page b by create_page, and
\* yields the page b before the page a.
C5_Witness ==
    /\ comic # None
    /\ comic[1].path # None
    /\ each_volume(comic[1]).items # <<>>
    /\ result.op = "create_page"
    /\ result.err = None
    /\ \E vid \in DOMAIN vols :
          /\ vols[vid].page_slugs = ListBA
          /\ Len(AddedTo(hist, vid)) = 2
          /\ each_page(heap, vid)
                = [err |-> None,
                   items |-> <<AddedTo(hist, vid)[2], AddedTo(hist, vid)[1]>>]

\* No add_page with the page pid has succeeded.
NeverAdded(hs, pid) == \A i \in DOMAIN hs.pages : hs.pages[i][2] # pid

\* C6: Page.url raises the not-linked error for every page that no
\* successful add_page was given, and after a successful add_page of the page
\* P to the volume V it is /volumes/<V.slug>/pages/<P.slug>.html.
C6_PageUrl ==
    [][/\ \A pid \in DOMAIN pgs' :
             NeverAdded(hist', pid) => page_url(heap', pid).err = NotLinked
       /\ \A vid \in DOMAIN vols, pid \in DOMAIN pgs :
             (AddPage(vid, pid) /\ result'.err = None)
             => page_url(heap', pid) =
                   [err |-> None,
                    url |-> <<"/volumes/", vols[vid].slug, "/pages/",
                              pgs[pid].slug, ".html">>]]_vars

\* An add_page has just succeeded while another page is still in no volume.
C6_Witness ==
    /\ result.op = "add_page"
    /\ result.err = None
    /\ \E pid \in DOMAIN pgs : NeverAdded(hist, pid)
    /\ \E pid \in DOMAIN pgs : ~NeverAdded(hist, pid) /\ page_url(heap, pid).err = None

\* C7: write_comic goes on exactly when one of comic.path and path is set;
\* with both or neither it raises the invalid-state error, writes nothing
\* and leaves comic.path as it was.
C7_ExactlyOnePath ==
    [][\A path \in PathArgs :
          WriteComic(path) =>
             LET one == (comic[1].path # None) # (path # None) IN
             /\ one <=> result'.err # InvalidState
             /\ ~one => /\ result'.log = <<>>
                        /\ disk' = disk
                        /\ comic'[1].path = comic[1].path]_vars

\* A comic that has a path was given another one to write_comic, which
\* refused.
C7_Witness ==
    /\ result.op = "write_comic"
    /\ result.err = InvalidState
    /\ comic[1].path # None
    /\ disk[comic[1].path[1]].comic # None

\* The pages write_comic visits: those the order lists of the comic and of
\* its volumes name.
ListedPages(c, h) ==
    {pid \in DOMAIN h.pgs :
        \E s \in Range(c.volume_slugs) \cap DOMAIN c.volumes :
            \E t \in Range(h.vols[c.volumes[s]].page_slugs) :
                /\ t \in DOMAIN h.vols[c.volumes[s]].pages
                /\ h.vols[c.volumes[s]].pages[t] = pid}

\* Those of them _write_page cannot place.
Unwritable(c, h) ==
    {pid \in ListedPages(c, h) : ~page_has_volume_path(h, h.pgs[pid])}

\* Nothing else stops the save: every image exists and every listed slug is
\* a key.
NoOtherFailure(c, h) ==
    /\ AssetsExist(c, h)
    /\ Range(c.volume_slugs) \subseteq DOMAIN c.volumes
    /\ \A vid \in DOMAIN h.vols :
          Range(h.vols[vid].page_slugs) \subseteq DOMAIN h.vols[vid].pages

\* The page.toml documents that d2 holds and d1 does not hold the same.
ChangedPageDocs(d1, d2) ==
    LET vds == UNION {DOMAIN d2[r].vols : r \in Roots}
        pds == UNION {UNION {DOMAIN d2[r].vols[vd].pages : vd \in DOMAIN d2[r].vols} :
                         r \in Roots}
    IN {x \in {Doc("page", r, vd, pd) : r \in Roots, vd \in vds, pd \in pds} :
          /\ x.vdir \in DOMAIN d2[x.root].vols
          /\ x.pdir \in DOMAIN d2[x.root].vols[x.vdir].pages
          /\ ~(/\ x.vdir \in DOMAIN d1[x.root].vols
               /\ x.pdir \in DOMAIN d1[x.root].vols[x.vdir].pages
               /\ d1[x.root].vols[x.vdir].pages[x.pdir]
                     = d2[x.root].vols[x.vdir].pages[x.pdir])}

\* C8: write_comic writes a page.toml only for a page that has a volume with
\* a path, at <volume path>/pages/<slug>/page.toml; with a listed page whose
\* volume is unset or has no path the save fails, with the volume config
\* error when nothing else stops it, and no page.toml is written but the
\* logged ones.
C8_PageNeedsVolumePath ==
    [][\A path \in PathArgs :
          (WriteComic(path) /\ result'.err # InvalidState) =>
             /\ \A i \in DOMAIN result'.log :
                   result'.log[i].doc = "page" =>
                      \E pid \in ListedPages(comic[1], heap) :
                          /\ page_has_volume_path(heap, pgs[pid])
                          /\ vols[pgs[pid].volume[1]].path[1]
                                = VolumePath(result'.log[i].root, result'.log[i].vdir)
                          /\ pgs[pid].slug = result'.log[i].pdir
             /\ Unwritable(comic[1], heap) # {} =>
                   /\ result'.err # None
                   /\ NoOtherFailure(comic[1], heap) => result'.err = NullVolume
             /\ ChangedPageDocs(disk, disk') \subseteq Range(result'.log)]_vars

\* A save wrote the page of a loaded volume and then failed on the page of
\* a volume made by create_volume.
C8_Witness ==
    /\ result.op = "write_comic"
    /\ result.err = NullVolume
    /\ \E i \in DOMAIN result.log : result.log[i].doc = "page"
    /\ \E pid \in DOMAIN pgs :
          pgs[pid].volume # None /\ vols[pgs[pid].volume[1]].path = None

\* C9: create_volume(title, image), when slugify(title) is no key of
\* volumes, makes a virtual volume without pages, adds that one entry to
\* volumes and appends its slug as the last element of volume_slugs, unless
\* volume_slugs already lists the slug, and then the list stays as it is;
\* when the slug is a key, it raises the duplicate error and changes nothing.
C9_CreateVolumeUnlessListed ==
    [][\A title \in Titles :
          CreateVolume(title, ImgP) =>
             IF slugify(title) \notin DOMAIN comic[1].volumes
             THEN /\ result'.err = None
                  /\ vols' = Append(vols, Volume(None, title, ImgP, <<>>))
                  /\ comic'[1].volume_slugs
                        = IF slugify(title) \in Range(comic[1].volume_slugs)
                          THEN comic[1].volume_slugs
                          ELSE Append(comic[1].volume_slugs, slugify(title))
                  /\ comic'[1].volumes
                        = Put(comic[1].volumes, slugify(title), Len(vols) + 1)
                  /\ comic' = Some([comic[1] EXCEPT
                                        !.volume_slugs = comic'[1].volume_slugs,
                                        !.volumes = comic'[1].volumes])
             ELSE /\ result'.err = DuplicateVolume
                  /\ comic' = comic
                  /\ vols' = vols]_vars

\* The same with the slug appended in every case.
C9_CreateVolume ==
    [][\A title \in Titles :
          CreateVolume(title, ImgP) =>
             IF slugify(title) \notin DOMAIN comic[1].volumes
             THEN /\ result'.err = None
                  /\ vols' = Append(vols, Volume(None, title, ImgP, <<>>))
                  /\ comic'[1].volume_slugs
                        = Append(comic[1].volume_slugs, slugify(title))
                  /\ comic'[1].volumes
                        = Put(comic[1].volumes, slugify(title), Len(vols) + 1)
             ELSE /\ result'.err = DuplicateVolume
                  /\ comic' = comic
                  /\ vols' = vols]_vars

\* In a comic constructed with a list of two slugs, create_volume has made
\* the volume of the first slug of the list: the list is as it was, and
\* the slug of the new volume is not its last element.
C9_Witness ==
    /\ result.op = "create_volume"
    /\ result.err = None
    /\ comic[1].volume_slugs = ListBA
    /\ hist.vols # <<>>
    /\ LET vid == hist.vols[Len(hist.vols)] IN
       /\ vols[vid] = Volume(None, <<"B">>, ImgP, <<>>)
       /\ comic[1].volumes[<<"b">>] = vid

\* C10: a loaded comic keeps every volume directory under its directory
\* name.
C10_DirectoryNameIsKey ==
    (result.op = "read_comic" /\ result.err = None) =>
        \A dir \in DOMAIN disk["p"].vols :
            /\ dir \in DOMAIN comic[1].volumes
            /\ vols[comic[1].volumes[dir]].path = Some(VolumePath("p", dir))

\* The list `got` is the list `listed` followed by each slug of `found` that
\* `listed` does not name, once.
ExtendsListed(got, listed, found) ==
    /\ Len(got) >= Len(listed)
    /\ SubSeq(got, 1, Len(listed)) = listed
    /\ LET extra == SubSeq(got, Len(listed) + 1, Len(got)) IN
       /\ Range(extra) = found \ Range(listed)
       /\ \A i, j \in DOMAIN extra : extra[i] = extra[j] => i = j

\* The pages list of the volume.toml the loaded volume vid was read from.
ListedPagesOf(vid) == disk["p"].vols[vols[vid].path[1].vdir].toml[1].pages

\* C11: after a successful read_comic the list of comic.toml is a prefix of
\* volume_slugs and the list of every volume.toml is a prefix of that
\* volume's page_slugs; the slugs of the volumes and pages read that the
\* list does not name follow the prefix, each once.
C11_UnlistedTolerated ==
    (result.op = "read_comic" /\ result.err = None) =>
        /\ ExtendsListed(comic[1].volume_slugs, disk["p"].comic[1].volumes,
                         {vols[vid].slug : vid \in DOMAIN vols})
        /\ \A vid \in DOMAIN vols :
              ExtendsListed(vols[vid].page_slugs, ListedPagesOf(vid),
                            {pgs[pid].slug : pid \in PagesOf(vid)})

\* A load that found a volume the non-empty list of comic.toml does not
\* name, and in a volume a page its volume.toml names and a page it does
\* not name.
C11_Witness ==
    /\ result.op = "read_comic"
    /\ result.err = None
    /\ disk["p"].comic[1].volumes # <<>>
    /\ Len(comic[1].volume_slugs) > Len(disk["p"].comic[1].volumes)
    /\ \E vid \in DOMAIN vols :
          /\ ListedPagesOf(vid) # <<>>
          /\ Len(vols[vid].page_slugs) > Len(ListedPagesOf(vid))
          /\ Cardinality(DOMAIN vols[vid].pages) = 2

(* --------------------- trees with unusable assets --------------------- *)

\* A path under assets/ that is a directory.
ImgDir == <<"/", "d">>

\* The regular file written with two leading slashes and with a trailing one.
ImgTwoSlashes == <<"/", "/", "p">>
ImgTrailingSlash == <<"/", "p", "/">>

DiskImages == {ImgP, ImgGone, ImgDir, ImgTwoSlashes, ImgTrailingSlash}

PageTomlsAnyImage == {Some([title |-> t, image |-> i]) : t \in DiskTitles, i \in DiskImages}

VolumeTreesAnyImage ==
    {[toml |-> Some([title |-> t, image |-> i, pages |-> <<>>]), pages |-> ps] :
        t \in DiskTitles, i \in DiskImages,
        ps \in DirMaps(PageTomlsAnyImage, MaxDiskPages)}

\* Trees of one volume directory at most, whose documents name any image.
AssetTrees ==
    {[comic |-> Some([name |-> ComicName, placeholder |-> i, volumes |-> <<>>]),
      vols |-> vs] :
        i \in DiskImages, vs \in DirMaps(VolumeTreesAnyImage, 1)}

\* The program starts on such a tree.
InitAssets ==
    /\ comic = None
    /\ vols = <<>>
    /\ pgs = <<>>
    /\ \E t \in AssetTrees : disk = [r \in Roots |-> IF r = "p" THEN t ELSE EmptyTree]
    /\ result = Outcome("start", None, <<>>)
    /\ hist = NoHist

SpecAssets == InitAssets /\ [][NextLoad]_vars

\* The messages of the path validators.
PathMessages == {"Path does not exist", "Path is not a file"}

\* The classes of the config errors of the documents of the tree that hold a
\* path the validators refuse.
KindsWithBadPath(tree) ==
    {"ScuzzieComicConfigError" :
        x \in {c \in {tree.comic} : c # None /\
                   validate_asset_exists(NormPath(c[1].placeholder)) # None}}
    \cup {"ScuzzieVolumeConfigError" :
        x \in {v \in DOMAIN tree.vols : tree.vols[v].toml # None /\
                   validate_asset_exists(NormPath(tree.vols[v].toml[1].image)) # None}}
    \cup {"ScuzziePageConfigError" :
        x \in {vp \in UNION {{<<v, q>> : q \in DOMAIN tree.vols[v].pages} :
                                  v \in DOMAIN tree.vols} :
                   /\ tree.vols[vp[1]].pages[vp[2]] # None
                   /\ validate_asset_exists(
                          NormPath(tree.vols[vp[1]].pages[vp[2]][1].image)) # None}}

\* C12: a load that fails on a path that does not exist or is no regular
\* file raises the config error of the kind of a document that holds such a
\* path: comic for the placeholder, volume for a volume image, page for a
\* page image.
C12_KindOfDocument ==
    (/\ result.op = "read_comic"
     /\ result.err # None
     /\ result.err[1].msg \in PathMessages) =>
        result.err[1].cls \in KindsWithBadPath(disk["p"])

\* C13: every page held in the pages of a volume has that volume as its
\* volume: the back-reference is set once and a page is in one volume at
\* most, whatever add_page and create_page calls were made.
C13_PageInOneVolume ==
    \A vid \in DOMAIN vols : \A pid \in PagesOf(vid) : pgs[pid].volume = Some(vid)

\* C14: Volume.url is /volumes/<slug>.html for every volume of the comic,
\* whether read_comic made it or create_volume made it.
C14_VolumeUrl ==
    comic # None =>
        \A vid \in VolumesOf(comic[1]) :
            volume_url(heap, vid)
               = [err |-> None, url |-> <<"/volumes/", vols[vid].slug, ".html">>]

\* What create_page makes of the pages and of the other volumes.
CreatesPage(title, image, vid) ==
    /\ result'.err = None
    /\ pgs' = Append(pgs,
          [Page(None, title, IF image = None THEN comic[1].placeholder ELSE image[1])
             EXCEPT !.volume = Some(vid)])
    /\ vols'[vid].pages = Put(vols[vid].pages, slugify(title), Len(pgs) + 1)
    /\ \A other \in DOMAIN vols \ {vid} : vols'[other] = vols[other]

\* C15: create_page with a title whose slug is no key of the volume's pages
\* makes a page with the comic's placeholder as its image when no image is
\* given and with the given image otherwise, and adds it to the volume; its
\* slug becomes the last element of page_slugs, unless page_slugs already
\* lists the slug, and then the list stays as it is.
C15_CreatePageUnlessListed ==
    [][\A title \in Titles, image \in {None, Some(ImgQ)}, vid \in DOMAIN vols :
          (CreatePage(title, image, vid)
             /\ slugify(title) \notin DOMAIN vols[vid].pages) =>
                /\ CreatesPage(title, image, vid)
                /\ vols'[vid].page_slugs
                      = IF slugify(title) \in Range(vols[vid].page_slugs)
                        THEN vols[vid].page_slugs
                        ELSE Append(vols[vid].page_slugs, slugify(title))]_vars

\* The same with the slug appended in every case.
C15_CreatePage ==
    [][\A title \in Titles, image \in {None, Some(ImgQ)}, vid \in DOMAIN vols :
          (CreatePage(title, image, vid)
             /\ slugify(title) \notin DOMAIN vols[vid].pages) =>
                /\ CreatesPage(title, image, vid)
                /\ vols'[vid].page_slugs
                      = Append(vols[vid].page_slugs, slugify(title))]_vars

\* create_page has made both pages of a volume constructed with the list
\* b, a, the second one for the first slug of the list: the list is as it
\* was; one page has the placeholder as its image, the other the image given.
C15_Witness ==
    /\ comic # None
    /\ result.op = "create_page"
    /\ result.err = None
    /\ \E vid \in DOMAIN vols :
          /\ vols[vid].page_slugs = ListBA
          /\ AddedTo(hist, vid) = <<1, 2>>
          /\ pgs[1].slug = <<"a">>
          /\ pgs[2].slug = <<"b">>
          /\ {pgs[1].image, pgs[2].image} = {comic[1].placeholder, ImgQ}

\* The page.toml documents of the volume vid in the order of each_page; a
\* page without a volume path has no place under any root.
PagePlan(h, vid) ==
    [i \in DOMAIN each_page(h, vid).items |->
        IF page_has_volume_path(h, h.pgs[each_page(h, vid).items[i]])
        THEN Doc("page",
                 h.vols[h.pgs[each_page(h, vid).items[i]].volume[1]].path[1].root,
                 h.vols[h.pgs[each_page(h, vid).items[i]].volume[1]].path[1].vdir,
                 h.pgs[each_page(h, vid).items[i]].slug)
        ELSE Doc("page", "", <<>>, h.pgs[each_page(h, vid).items[i]].slug)]

RECURSIVE VolumePlan(_, _, _, _)
\* The documents of the volumes of each_volume from the i-th on: each
\* volume.toml followed by the page.toml documents of the volume.
VolumePlan(c, h, root, i) ==
    IF i > Len(each_volume(c).items) THEN <<>>
    ELSE <<Doc("volume", root, h.vols[each_volume(c).items[i]].slug, <<>>)>>
         \o PagePlan(h, each_volume(c).items[i])
         \o VolumePlan(c, h, root, i + 1)

\* The documents of a whole save under root, in order.
Plan(c, h, root) == <<Doc("comic", root, <<>>, <<>>)>> \o VolumePlan(c, h, root, 1)

IsPrefix(a, b) == Len(a) <= Len(b) /\ a = SubSeq(b, 1, Len(a))

\* The document at a place of the disk d, None when there is none.
DocAt(d, x) ==
    IF x.doc = "comic" THEN d[x.root].comic
    ELSE IF x.vdir \notin DOMAIN d[x.root].vols THEN None
    ELSE IF x.doc = "volume" THEN d[x.root].vols[x.vdir].toml
    ELSE IF x.pdir \notin DOMAIN d[x.root].vols[x.vdir].pages THEN None
    ELSE d[x.root].vols[x.vdir].pages[x.pdir]

\* Every place a document may be at.
DocNames == DirNames \cup {slugify(t) : t \in Titles}
DocPlaces ==
    {Doc("comic", r, <<>>, <<>>) : r \in Roots}
    \cup {Doc("volume", r, vd, <<>>) : r \in Roots, vd \in DocNames}
    \cup {Doc("page", r, vd, pd) : r \in Roots, vd \in DocNames, pd \in DocNames}

\* C16: write_comic writes comic.toml, then for each volume in volume_slugs
\* order its volume.toml and the page.toml of each of its pages in
\* page_slugs order. The documents written are a prefix of that sequence,
\* the whole of it when the save succeeds; when a step fails the documents
\* written before it are on disk and no other document has changed.
C16_WriteOrderNoRollback ==
    [][\A path \in PathArgs :
          WriteComic(path) =>
            IF ensure_comic_has_path(comic[1], path).err # None
            THEN result'.log = <<>> /\ disk' = disk
            ELSE /\ IsPrefix(result'.log, Plan(comic'[1], heap, comic'[1].path[1]))
                 /\ result'.err = None
                       => result'.log = Plan(comic'[1], heap, comic'[1].path[1])
                 /\ \A i \in DOMAIN result'.log : DocAt(disk', result'.log[i]) # None
                 /\ \A x \in DocPlaces \ Range(result'.log) :
                       DocAt(disk', x) = DocAt(disk, x)]_vars

\* A save failed after it wrote a page.toml and then another volume.toml.
C16_Witness ==
    /\ result.op = "write_comic"
    /\ result.err # None
    /\ \E i, j \in DOMAIN result.log :
          /\ i < j
          /\ result.log[i].doc = "page"
          /\ result.log[j].doc = "volume"
          /\ DocAt(disk, result.log[j]) # None

(* ------------------------- load, save, load --------------------------- *)

\* A loadable tree is loaded, the comic is saved as it is, and the tree is
\* loaded again.
NextReload ==
    \/ result.op = "start" /\ ReadComic("p")
    \/ result.op = "read_comic" /\ WriteComic(None)
    \/ result.op = "write_comic" /\ ReadComic("p")

SpecReload == InitLoadable /\ [][NextReload]_vars

\* Two disks hold the same volume and page directories.
SameDirs(d1, d2) ==
    \A r \in Roots :
        /\ DOMAIN d1[r].vols = DOMAIN d2[r].vols
        /\ \A vd \in DOMAIN d1[r].vols \cap DOMAIN d2[r].vols :
              DOMAIN d1[r].vols[vd].pages = DOMAIN d2[r].vols[vd].pages

\* C17: the comic read from a loadable tree is saved without error and
\* without a volume or page directory of a new name, and reading the tree
\* again succeeds and gives the same order lists, titles and images.
C17_LoadSaveLoad ==
    [][/\ (result.op = "read_comic" /\ WriteComic(None)) =>
             (result'.err = None /\ SameDirs(disk, disk'))
       /\ (result.op = "write_comic" /\ ReadComic("p")) =>
             (/\ result'.err = None
              /\ SameGraph(comic[1], heap, comic'[1], [vols |-> vols', pgs |-> pgs']))
      ]_vars

(* ------------------------- command sequences -------------------------- *)

NoVolumesFound == Err("ScuzzieError", "No volumes found in comic", <<>>, <<>>)

\* prompt_image_path and sanitise_image_path: nothing typed gives the
\* placeholder as a path under assets; a path typed is one under assets.
prompt_image_path(c, typed) ==
    IF typed = None THEN <<"/">> \o StripSlashes(c.placeholder) ELSE typed[1]

\* What ends volumes = list(comic.each_volume()) and the check that there
\* is a volume.
list_volumes(c) ==
    IF each_volume(c).err # None THEN each_volume(c).err
    ELSE IF each_volume(c).items = <<>> THEN NoVolumesFound
    ELSE None

\* `new volume` up to its prompts: read_comic.
StartNewVolume == ReadComic("p")

\* `new page` up to its prompts: read_comic, and when it returned the
\* volumes of the comic are listed.
StartNewPage ==
    \E vorder \in Orders(DOMAIN disk["p"].vols), porder \in PageOrders(disk["p"]) :
        LET r == read_comic(disk, "p", vorder, porder) IN
        /\ comic' = r.comic
        /\ vols' = r.heap.vols
        /\ pgs' = r.heap.pgs
        /\ hist' = NoHist
        /\ result' = IF r.err # None THEN Outcome("read_comic", r.err, <<>>)
                      ELSE Outcome("list_volumes", list_volumes(r.comic[1]), <<>>)
        /\ UNCHANGED disk

\* The creation of a command raised: the command ends, nothing is written.
CreationRaised(op, c, h, err) ==
    /\ comic' = Some(c)
    /\ vols' = h.vols
    /\ pgs' = h.pgs
    /\ result' = Outcome(op, err, <<>>)
    /\ UNCHANGED <<disk, hist>>

\* The creation of a command returned the comic c in the heap h:
\* write_comic(comic) follows at once and ends the command.
CreationSaved(c, h, created, w) ==
    /\ comic' = Some(ensure_comic_has_path(c, None).comic)
    /\ vols' = h.vols
    /\ pgs' = h.pgs
    /\ hist' = created
    /\ disk' = w.disk
    /\ result' = Outcome("write_comic", w.err, w.log)

\* `new page` after the prompts: a volume of the list, a title and an image
\* were given; create_page, then write_comic(comic).
NewPageCommand(title, typed, vid) ==
    /\ result.op = "list_volumes"
    /\ result.err = None
    /\ vid \in Range(each_volume(comic[1]).items)
    /\ Len(pgs) < MaxPages
    /\ LET r == create_page(comic[1], heap, title,
                            Some(prompt_image_path(comic[1], typed)), vid) IN
       IF r.err # None
       THEN CreationRaised("create_page", comic[1], r.heap, r.err)
       ELSE CreationSaved(comic[1], r.heap,
                          [hist EXCEPT !.pages = Append(@, <<vid, r.pid>>)],
                          write_comic(comic[1], r.heap, disk, None))

\* `new volume` after the prompts: a title and an image were given;
\* create_volume, then write_comic(comic).
NewVolumeCommand(title, typed) ==
    /\ result.op = "read_comic"
    /\ result.err = None
    /\ Len(vols) < MaxVolumes
    /\ LET r == create_volume(comic[1], heap, title,
                              prompt_image_path(comic[1], typed)) IN
       IF r.err # None
       THEN CreationRaised("create_volume", r.comic, r.heap, r.err)
       ELSE CreationSaved(r.comic, r.heap,
                          [hist EXCEPT !.vols = Append(@, r.vid)],
                          write_comic(r.comic, r.heap, disk, None))

\* Commands, one after another: `new page` and `new volume`. A command
\* that raised, was left at a prompt or ended is followed by the next.
NextCommands ==
    \/ StartNewVolume
    \/ StartNewPage
    \/ \E title \in Titles, typed \in {None, Some(ImgQ)}, vid \in DOMAIN vols :
          NewPageCommand(title, typed, vid)
    \/ \E title \in Titles, typed \in {None, Some(ImgQ)} :
          NewVolumeCommand(title, typed)

SpecCommands == InitTidy /\ [][NextCommands]_vars

\* The slug of the volume or page the command created is the last of the
\* order list of its parent in the comic c of the heap h.
CreatedIsLast(c, h) ==
    /\ \A i \in DOMAIN hist.vols :
          /\ c.volume_slugs # <<>>
          /\ c.volume_slugs[Len(c.volume_slugs)] = vols[hist.vols[i]].slug
    /\ \A i \in DOMAIN hist.pages :
          LET s == vols[hist.pages[i][1]].slug IN
          /\ s \in DOMAIN c.volumes
          /\ h.vols[c.volumes[s]].page_slugs # <<>>
          /\ h.vols[c.volumes[s]].page_slugs[Len(h.vols[c.volumes[s]].page_slugs)]
                = pgs[hist.pages[i][2]].slug

\* The list is not empty and ends with the slug.
LastIs(list, slug) == list # <<>> /\ list[Len(list)] = slug

\* The load that starts a command after a command that saved reads the
\* lists of the comic saved, with what that command created as the last.
ReloadsSaved ==
    (result.op = "write_comic" /\ result.err = None) =>
        /\ SameGraph(comic[1], heap, comic'[1], [vols |-> vols', pgs |-> pgs'])
        /\ CreatedIsLast(comic'[1], [vols |-> vols', pgs |-> pgs'])

\* C18: in a sequence of commands on a loadable tree named by the slugs of
\* its titles, with images that exist, every load succeeds, the volumes of
\* a comic that has one are listed, every creation of a volume or page of
\* a fresh slug succeeds and is saved, leaves the order lists as they were
\* with the new slug as the last, in memory and in the document written,
\* and the load after a save reads the same lists back.
C18_CommandSequence ==
    [][/\ StartNewVolume => (result'.err = None /\ ReloadsSaved)
       /\ StartNewPage =>
             /\ result'.op = "list_volumes"
             /\ DOMAIN comic'[1].volumes # {} => result'.err = None
             /\ ReloadsSaved
       /\ \A title \in Titles, typed \in {None, Some(ImgQ)} :
             (NewVolumeCommand(title, typed)
                /\ slugify(title) \notin DOMAIN comic[1].volumes) =>
                   /\ result'.op = "write_comic"
                   /\ result'.err = None
                   /\ LastIs(comic'[1].volume_slugs, slugify(title))
                   /\ IsPrefix(comic[1].volume_slugs, comic'[1].volume_slugs)
                   /\ disk'["p"].comic[1].volumes = comic'[1].volume_slugs
       /\ \A title \in Titles, typed \in {None, Some(ImgQ)}, vid \in DOMAIN vols :
             (NewPageCommand(title, typed, vid)
                /\ slugify(title) \notin DOMAIN vols[vid].pages) =>
                   /\ result'.op = "write_comic"
                   /\ result'.err = None
                   /\ LastIs(vols'[vid].page_slugs, slugify(title))
                   /\ IsPrefix(vols[vid].page_slugs, vols'[vid].page_slugs)
                   /\ disk'["p"].vols[vols'[vid].slug].toml[1].pages
                         = vols'[vid].page_slugs]_vars

(* ----------------------- the graph of a loaded comic ------------------ *)

\* A tree is loaded and the graph of the comic is changed by every call
\* there is.
NextLoadedGraph ==
    \/ result.op = "start" /\ ReadComic("p")
    \/ GraphCall({ListBA})

SpecLoadedGraph == InitTidy /\ [][NextLoadedGraph]_vars

\* Every key of volumes and of pages is the slug of what it maps to.
KeysAreSlugs ==
    /\ \A k \in DOMAIN comic[1].volumes : vols[comic[1].volumes[k]].slug = k
    /\ \A vid \in DOMAIN vols :
          \A k \in DOMAIN vols[vid].pages : pgs[vols[vid].pages[k]].slug = k

\* Every key of volumes and of pages is in the order list.
KeysAreListed ==
    /\ DOMAIN comic[1].volumes \subseteq Range(comic[1].volume_slugs)
    /\ \A vid \in DOMAIN vols : DOMAIN vols[vid].pages \subseteq Range(vols[vid].page_slugs)

\* No order list of the comic c and the volumes vs holds a slug twice.
NoRepeats(c, vs) ==
    /\ NoRepeat(c.volume_slugs)
    /\ \A vid \in DOMAIN vs : NoRepeat(vs[vid].page_slugs)

\* The calls the order lists are changed by.
GraphOps == {"add_volume", "add_page", "create_volume", "create_page"}

\* C19: whatever add and create calls were made on the comics and volumes
\* constructed, with whatever order lists, and whether the calls failed,
\* every key maps to an entity of that slug and is in the order list, and
\* an add or create call on order lists without a repeated slug leaves them
\* without one.
C19_KeysAndOrder ==
    /\ [](comic # None => (KeysAreSlugs /\ KeysAreListed))
    /\ [][(comic # None /\ result'.op \in GraphOps /\ NoRepeats(comic[1], vols))
             => NoRepeats(comic'[1], vols')]_vars

\* A comic and a volume were constructed with the list b, a; add_volume has
\* put the volume under the slug b of the comic's list, and add_page has
\* then put a page under a slug of the volume's list.
C19_Witness ==
    /\ comic # None
    /\ result.op = "add_page"
    /\ result.err = None
    /\ comic[1].volume_slugs = ListBA
    /\ NoRepeats(comic[1], vols)
    /\ \E vid \in Range(hist.vols) :
          /\ comic[1].volumes = Put(EmptyMap, <<"b">>, vid)
          /\ vols[vid].page_slugs = ListBA
          /\ hist.pages # <<>>
          /\ hist.pages[Len(hist.pages)][1] = vid

\* The comic.toml and volume.toml documents of the log are under root.
WrittenUnder(log, root) ==
    \A i \in DOMAIN log : log[i].doc \in {"comic", "volume"} => log[i].root = root

\* C20: write_comic with a path on a comic without one sets comic.path to
\* it, whether the save then completes or fails, and writes under it; a
\* later write_comic without a path writes under comic.path and one with
\* any path raises the invalid-state error. A path that is set is changed
\* by no call on the comic, and a save changes no volume and no page.
C20_PathBoundBySave ==
    [][/\ \A path \in PathArgs :
             WriteComic(path) =>
                /\ (comic[1].path = None /\ path # None) =>
                      /\ comic'[1].path = path
                      /\ result'.err # InvalidState
                      /\ WrittenUnder(result'.log, path[1])
                /\ (comic[1].path # None /\ path = None) =>
                      /\ result'.err # InvalidState
                      /\ WrittenUnder(result'.log, comic[1].path[1])
                /\ (comic[1].path # None /\ path # None) =>
                      /\ result'.err = InvalidState
                      /\ disk' = disk
                /\ vols' = vols
                /\ pgs' = pgs
       /\ (comic # None /\ result'.op # "read_comic") =>
             (comic[1].path # None => comic'[1].path = comic[1].path)]_vars

\* A comic constructed in memory was saved under a root with its first
\* volume; create_volume has then made a second volume in the comic, which
\* has the path still, and neither volume has a path.
C20_Witness ==
    /\ comic # None
    /\ result.op = "create_volume"
    /\ result.err = None
    /\ comic[1].path # None
    /\ Len(hist.vols) = 2
    /\ \A vid \in DOMAIN vols : vols[vid].path = None
    /\ disk[comic[1].path[1]].comic # None
    /\ disk[comic[1].path[1]].comic[1].volumes = <<vols[hist.vols[1]].slug>>

====
